---- MODULE Spec2Model ----
(***************************************************************************)
(* Gasless approval of the Payment class (src/src/payment.ts):             *)
(* gasslessApproval, sendRawBiconomyERC20Transaction and                   *)
(* getNonceForGaslessERC20, together with the relay (vendor.biconomy), the *)
(* signer and the contracts they talk to.  One call is followed from its   *)
(* entry to its settlement; an action is one run-to-completion segment of  *)
(* the async code, from one await to the next.                             *)
(***************************************************************************)
EXTENDS Integers, Sequences, FiniteSets, TLC

\* ------------------------------------------------------------- bounds
\* Relay events emitted over one behaviour.
MaxEvents == 3
\* Largest nonce the token contract reports.
MaxNonce == 1

\* ------------------------------------------------------- program constants
DefaultPrecision == 18
INVALID_BICONOMY_KEY == "Biconomy key is invalid"

\* ---------------------------------------------------------- value domains
READY == "READY"
ERROR == "ERROR"
NOT_READY == "NOT_READY"

Undefined == "undefined"
TypeError == "TypeError"

\* tokenPrecision as configured: absent, or a number of decimals.
NoPrecision == -1
Precisions == {NoPrecision, 0, 6, DefaultPrecision}

Amounts == {"1", "10.5"}
ChainIds == {137}
Addresses == {"0xA", "0xB"}
Signatures == {"sigA", "sigB"}
TxResults == {"txA", "txB"}
ExecErrors == {"reverted"}
ErrorPayloads == {"relay down", "bad key"}

PaymentsAddress == "0xPay"
Erc20Address == "0xTok"

\* What getNonce can hand back: undefined, an empty array, an array whose
\* first element is null/undefined, one whose first element is a BigNumber n,
\* and one whose first element has no toNumber.
NonceRaws ==
    {[k |-> "undefined", n |-> 0], [k |-> "empty", n |-> 0],
     [k |-> "nullfirst", n |-> 0], [k |-> "notbn", n |-> 0]}
    \cup {[k |-> "bn", n |-> i] : i \in 0..MaxNonce}

MissingNonce == {"undefined", "empty", "nullfirst"}

\* ------------------------------------------------------------ pure helpers

\* a ?? b on a precision
Nullish(p, d) == IF p = NoPrecision THEN d ELSE p

\* a || b on a precision: 0 is falsy
OrDefault(p, d) == IF p = NoPrecision \/ p = 0 THEN d ELSE p

\* The precision paymentWithFee and getApprovalAmount convert with.
FeePrecision(p) == Nullish(p, DefaultPrecision)

\* The precision gasslessApproval converts with.
ApprovalPrecision(p) == OrDefault(p, DefaultPrecision)

\* vendor.convertToWei: the amount scaled by 10^precision, kept symbolic
\* (10^18 is beyond TLC's integers): two results are equal exactly when
\* amount and precision are.
ConvertToWei(amount, precision) == [amount |-> amount, precision |-> precision]

NoWei == [amount |-> "", precision |-> NoPrecision]

\* vendor.abiEncodeErc20Functions(fn, [spender, wei])
AbiEncodeErc20Functions(fn, spender, w) == [fn |-> fn, spender |-> spender, wei |-> w]

NoCall == [fn |-> "", spender |-> "", wei |-> NoWei]

\* vendor.getSignatureParameters: a pure function of the signature
GetSignatureParameters(sig) == [r |-> <<"r", sig>>, s |-> <<"s", sig>>, v |-> <<"v", sig>>]

NoRsv == GetSignatureParameters("")

\* Mutant: nonce[0].toNumber() with no optional chaining and no default.
NonceToNumber_NoDefault(raw) ==
    IF raw.k = "bn" THEN [thrown |-> FALSE, n |-> raw.n] ELSE [thrown |-> TRUE, n |-> 0]

\* nonce?.[0]?.toNumber() ?? 0
NonceToNumber(raw) ==
    CASE raw.k = "undefined" -> [thrown |-> FALSE, n |-> 0]
      [] raw.k = "empty"     -> [thrown |-> FALSE, n |-> 0]
      [] raw.k = "nullfirst" -> [thrown |-> FALSE, n |-> 0]
      [] raw.k = "bn"        -> [thrown |-> FALSE, n |-> raw.n]
      [] OTHER               -> [thrown |-> TRUE, n |-> 0]

Pending == <<"pending", "">>

\* Mutant: a settled promise is settled again.
Settle_Overwrite(res, kind, v) == <<kind, v>>

\* resolve/reject of a promise: only a pending promise changes state
Settle(res, kind, v) == IF res = Pending THEN <<kind, v>> ELSE res

NoSign == [u |-> "", n |-> -1, f |-> NoCall, a |-> "", c |-> 0]
NoExec == [u |-> "", f |-> NoCall, r |-> <<"", "">>, s |-> <<"", "">>, v |-> <<"", "">>]
NoRaw == [k |-> "", n |-> 0]

StepOrder ==
    <<"convertToWei", "abiEncodeErc20Functions", "getAddress", "getNonce",
      "signedMessageForTx", "getSignatureParameters", "submit">>

\* ------------------------------------------------------------------ state
VARIABLES
    \* configuration of the Payment object and its vendor
    biconomy, status, tokenPrecision,
    paymentsContract, erc20Contract, biconomyERC20Contract,
    \* the call
    entry, pc, chainId, wei, abiEncodedApprove, userAddress, nonce,
    u, f, rsv, result,
    \* relay side
    readyListeners, errorListeners, emitted, delivered, inflight,
    \* what the collaborators saw
    steps, doneSteps, failedAt, nonceRaw, nonceCalls, signArgs,
    relayQueried, execCalls, execArgs, lastExec, listenerThrown

config == <<biconomy, tokenPrecision, paymentsContract, erc20Contract, biconomyERC20Contract>>
locals == <<chainId, wei, abiEncodedApprove, userAddress, nonce>>
params == <<u, f, rsv>>
relay == <<readyListeners, errorListeners>>
seen == <<steps, doneSteps, failedAt, nonceRaw, nonceCalls, signArgs>>
exec == <<execCalls, execArgs>>

vars == <<config, status, entry, pc, locals, params, result, relay, emitted,
          delivered, inflight, seen, relayQueried, exec, lastExec, listenerThrown>>

Init ==
    /\ biconomy \in BOOLEAN
    /\ status \in {NOT_READY, READY}
    /\ tokenPrecision \in Precisions
    /\ paymentsContract \in BOOLEAN
    /\ erc20Contract \in BOOLEAN
    /\ biconomyERC20Contract \in BOOLEAN
    /\ entry = "none"
    /\ pc = "idle"
    /\ chainId = 0
    /\ wei = NoWei
    /\ abiEncodedApprove = NoCall
    /\ userAddress = ""
    /\ nonce = -1
    /\ u = "" /\ f = NoCall /\ rsv = NoRsv
    /\ result = Pending
    /\ readyListeners = 0 /\ errorListeners = 0
    /\ emitted = 0
    /\ delivered = <<>>
    /\ inflight = 0
    /\ steps = <<>> /\ doneSteps = 0 /\ failedAt = ""
    /\ nonceRaw = NoRaw /\ nonceCalls = 0 /\ signArgs = NoSign
    /\ relayQueried = FALSE
    /\ execCalls = 0 /\ execArgs = NoExec
    /\ lastExec = Pending
    /\ listenerThrown = {}

\* -------------------------------------------------- sendRaw..., lines 224-241

\* this.biconomyERC20Contract?.functions.executeMetaTransaction(u, f, r, s, v):
\* the call goes out only when the contract is set.
ExecuteMetaTransaction(u_, f_, rsv_) ==
    IF biconomyERC20Contract
    THEN /\ execCalls' = execCalls + 1
         /\ execArgs' = [u |-> u_, f |-> f_, r |-> rsv_.r, s |-> rsv_.s, v |-> rsv_.v]
    ELSE UNCHANGED exec

\* .onEvent(READY, ...).onEvent(ERROR, ...): one listener each, kept by the relay
RegisterListeners ==
    /\ readyListeners' = readyListeners + 1
    /\ errorListeners' = errorListeners + 1

\* Mutant: the readiness test is inverted.
SendRaw_Inverted(u_, f_, rsv_) ==
    /\ u' = u_ /\ f' = f_ /\ rsv' = rsv_
    /\ relayQueried' = TRUE
    /\ IF status # READY
       THEN /\ ExecuteMetaTransaction(u_, f_, rsv_)
            /\ pc' = "awaitExec"
            /\ UNCHANGED relay
       ELSE /\ RegisterListeners
            /\ pc' = "waiting"
            /\ UNCHANGED exec

\* Mutant: a relay that is not ready is tried anyway before waiting.
SendRaw_Eager(u_, f_, rsv_) ==
    /\ u' = u_ /\ f' = f_ /\ rsv' = rsv_
    /\ relayQueried' = TRUE
    /\ ExecuteMetaTransaction(u_, f_, rsv_)
    /\ IF status = READY
       THEN /\ pc' = "awaitExec"
            /\ UNCHANGED relay
       ELSE /\ RegisterListeners
            /\ pc' = "waiting"

\* The synchronous part of sendRawBiconomyERC20Transaction.
SendRawBiconomyERC20Transaction(u_, f_, rsv_) ==
    /\ u' = u_ /\ f' = f_ /\ rsv' = rsv_
    /\ relayQueried' = TRUE
    /\ IF status = READY
       THEN /\ ExecuteMetaTransaction(u_, f_, rsv_)
            /\ pc' = "awaitExec"
            /\ UNCHANGED relay
       ELSE /\ RegisterListeners
            /\ pc' = "waiting"
            /\ UNCHANGED exec

\* A caller outside the class calls sendRawBiconomyERC20Transaction itself.
CallSendRaw(u_, f_, rsv_) ==
    /\ pc = "idle"
    /\ entry' = "direct"
    /\ IF biconomy
       THEN /\ SendRawBiconomyERC20Transaction(u_, f_, rsv_)
            /\ UNCHANGED <<result, failedAt>>
       ELSE \* this.vendor.biconomy.status on an absent relay
            /\ result' = Settle(result, "rejected", TypeError)
            /\ failedAt' = "submit"
            /\ pc' = "done"
            /\ UNCHANGED <<params, relayQueried, relay, exec>>
    /\ UNCHANGED <<config, status, locals, emitted, delivered, inflight, steps,
                   doneSteps, nonceRaw, nonceCalls, signArgs, lastExec, listenerThrown>>

\* The awaited executeMetaTransaction of the READY branch comes back.
ExecReturns(r) ==
    /\ pc = "awaitExec"
    /\ IF biconomyERC20Contract THEN TRUE ELSE r = <<"resolved", Undefined>>
    /\ lastExec' = r
    /\ result' = Settle(result, r[1], r[2])
    /\ failedAt' = IF r[1] = "rejected" THEN "submit" ELSE failedAt
    /\ doneSteps' = IF r[1] = "resolved" /\ entry = "approval" THEN doneSteps + 1 ELSE doneSteps
    /\ pc' = "done"
    /\ UNCHANGED <<config, status, entry, locals, params, relay, emitted, delivered,
                   inflight, steps, nonceRaw, nonceCalls, signArgs, relayQueried,
                   exec, listenerThrown>>

\* ------------------------------------------------------------ the relay

\* The relay becomes ready and tells its READY listeners: each starts
\* executeMetaTransaction and awaits it.
EmitReady ==
    /\ biconomy
    /\ emitted < MaxEvents
    /\ emitted' = emitted + 1
    /\ status' = READY
    /\ IF readyListeners > 0
       THEN /\ delivered' = Append(delivered, [type |-> READY, payload |-> ""])
            /\ ExecuteMetaTransaction(u, f, rsv)
            /\ inflight' = inflight + 1
       ELSE UNCHANGED <<delivered, exec, inflight>>
    /\ UNCHANGED <<config, entry, pc, locals, params, result, relay, seen,
                   relayQueried, lastExec, listenerThrown>>

\* Mutant: the payload is replaced by the library's own message.
OnError_Wrapped(error) == result' = Settle(result, "rejected", "Transaction failed")

\* The ERROR listener: console.log(error); reject(error)
OnError(error) == result' = Settle(result, "rejected", error)

\* The relay reports an error to its ERROR listeners.
EmitError(p) ==
    /\ biconomy
    /\ emitted < MaxEvents
    /\ emitted' = emitted + 1
    /\ IF errorListeners > 0
       THEN /\ delivered' = Append(delivered, [type |-> ERROR, payload |-> p])
            /\ OnError(p)
       ELSE UNCHANGED <<delivered, result>>
    /\ UNCHANGED <<config, status, entry, pc, locals, params, relay, inflight, seen,
                   relayQueried, exec, lastExec, listenerThrown>>

\* executeMetaTransaction awaited inside a READY listener comes back:
\* resolve(tx) on success; on failure the listener's own promise rejects and
\* nobody holds it.
ListenerExecReturns(r) ==
    /\ inflight > 0
    /\ IF biconomyERC20Contract THEN TRUE ELSE r = <<"resolved", Undefined>>
    /\ inflight' = inflight - 1
    /\ lastExec' = r
    /\ IF r[1] = "resolved"
       THEN /\ result' = Settle(result, "resolved", r[2])
            /\ UNCHANGED listenerThrown
       ELSE /\ listenerThrown' = listenerThrown \cup {r[2]}
            /\ UNCHANGED result
    /\ UNCHANGED <<config, status, entry, pc, locals, params, relay, emitted,
                   delivered, seen, relayQueried, exec>>

ExecResponses ==
    {<<"resolved", t>> : t \in TxResults \cup {Undefined}}
    \cup {<<"rejected", e>> : e \in ExecErrors}

\* ------------------------------------------- gasslessApproval, lines 199-215

\* The vendor's synchronous helpers and the awaited calls may fail.
AddressResponses ==
    {[ok |-> TRUE, v |-> a] : a \in Addresses} \cup {[ok |-> FALSE, v |-> "no signer"]}

NonceResponses ==
    {[ok |-> TRUE, raw |-> r, v |-> ""] : r \in NonceRaws}
    \cup {[ok |-> FALSE, raw |-> NoRaw, v |-> "call failed"]}

SignResponses ==
    {[ok |-> TRUE, v |-> s] : s \in Signatures} \cup {[ok |-> FALSE, v |-> "user denied"]}

\* The call ends in a failure raised by step s.
Fail(s, e) ==
    /\ result' = Settle(result, "rejected", e)
    /\ failedAt' = s
    /\ pc' = "done"

\* Entry of gasslessApproval up to its first await: the credential check,
\* convertToWei, abiEncodeErc20Functions and the call of signer.getAddress().
ApprovalSteps(approvalAmount, chainId_, convertOk, encodeOk) ==
    /\ chainId' = chainId_
    /\ IF ~convertOk
       THEN /\ Fail("convertToWei", "convert failed")
            /\ steps' = <<"convertToWei">>
            /\ UNCHANGED <<wei, abiEncodedApprove, doneSteps>>
       ELSE /\ wei' = ConvertToWei(approvalAmount, ApprovalPrecision(tokenPrecision))
            /\ IF ~encodeOk
               THEN /\ Fail("abiEncodeErc20Functions", "encode failed")
                    /\ steps' = <<"convertToWei", "abiEncodeErc20Functions">>
                    /\ doneSteps' = 1
                    /\ UNCHANGED abiEncodedApprove
               ELSE /\ abiEncodedApprove' =
                         AbiEncodeErc20Functions("approve",
                             IF paymentsContract THEN PaymentsAddress ELSE Undefined,
                             wei')
                    /\ steps' = <<"convertToWei", "abiEncodeErc20Functions", "getAddress">>
                    /\ doneSteps' = 2
                    /\ pc' = "awaitAddress"
                    /\ UNCHANGED <<result, failedAt>>

\* Mutant: the credential check is missing.
ApprovalBody_NoCheck(approvalAmount, chainId_, convertOk, encodeOk) ==
    ApprovalSteps(approvalAmount, chainId_, convertOk, encodeOk)

\* if (!this.vendor.biconomy) throw new Error(INVALID_BICONOMY_KEY), then the steps
ApprovalBody(approvalAmount, chainId_, convertOk, encodeOk) ==
    IF ~biconomy
    THEN /\ Fail("config", INVALID_BICONOMY_KEY)
         /\ UNCHANGED <<chainId, wei, abiEncodedApprove, steps, doneSteps>>
    ELSE ApprovalSteps(approvalAmount, chainId_, convertOk, encodeOk)

GasslessApproval(approvalAmount, chainId_, convertOk, encodeOk) ==
    /\ pc = "idle"
    /\ entry' = "approval"
    /\ ApprovalBody(approvalAmount, chainId_, convertOk, encodeOk)
    /\ UNCHANGED <<config, status, userAddress, nonce, params, relay, emitted, delivered,
                   inflight, nonceRaw, nonceCalls, signArgs, relayQueried, exec,
                   lastExec, listenerThrown>>

\* signer.getAddress() comes back; getNonceForGaslessERC20 starts and calls
\* this.erc20Contract?.functions.getNonce(userAddress).
GetAddressReturns(r) ==
    /\ pc = "awaitAddress"
    /\ IF ~r.ok
       THEN /\ Fail("getAddress", r.v)
            /\ UNCHANGED <<userAddress, steps, doneSteps, nonceCalls>>
       ELSE /\ userAddress' = r.v
            /\ steps' = Append(steps, "getNonce")
            /\ doneSteps' = doneSteps + 1
            /\ nonceCalls' = IF erc20Contract THEN nonceCalls + 1 ELSE nonceCalls
            /\ pc' = "awaitNonce"
            /\ UNCHANGED <<result, failedAt>>
    /\ UNCHANGED <<config, status, entry, chainId, wei, abiEncodedApprove, nonce, params,
                   relay, emitted, delivered, inflight, nonceRaw, signArgs, relayQueried,
                   exec, lastExec, listenerThrown>>

\* getNonce comes back (undefined at once when there is no contract);
\* getNonceForGaslessERC20 returns nonce?.[0]?.toNumber() ?? 0 and
\* gasslessApproval calls vendor.signedMessageForTx.
GetNonceReturns(r) ==
    /\ pc = "awaitNonce"
    /\ IF erc20Contract THEN TRUE ELSE r.ok /\ r.raw.k = "undefined" /\ r.raw.n = 0
    /\ IF ~r.ok
       THEN /\ Fail("getNonce", r.v)
            /\ UNCHANGED <<nonce, nonceRaw, steps, doneSteps, signArgs>>
       ELSE /\ nonceRaw' = r.raw
            /\ IF NonceToNumber(r.raw).thrown
               THEN /\ Fail("getNonce", TypeError)
                    /\ UNCHANGED <<nonce, steps, doneSteps, signArgs>>
               ELSE /\ nonce' = NonceToNumber(r.raw).n
                    /\ signArgs' = [u |-> userAddress, n |-> nonce', f |-> abiEncodedApprove,
                                    a |-> IF erc20Contract THEN Erc20Address ELSE "",
                                    c |-> chainId]
                    /\ steps' = Append(steps, "signedMessageForTx")
                    /\ doneSteps' = doneSteps + 1
                    /\ pc' = "awaitSign"
                    /\ UNCHANGED <<result, failedAt>>
    /\ UNCHANGED <<config, status, entry, chainId, wei, abiEncodedApprove, userAddress,
                   params, relay, emitted, delivered, inflight, nonceCalls, relayQueried,
                   exec, lastExec, listenerThrown>>

\* Mutant: a failure of getSignatureParameters is swallowed and the call
\* is submitted all the same.
SignedMessageReturns_Swallow(r, splitOk) ==
    /\ pc = "awaitSign"
    /\ IF ~r.ok
       THEN /\ Fail("signedMessageForTx", r.v)
            /\ UNCHANGED <<steps, doneSteps, params, relayQueried, relay, exec>>
       ELSE /\ steps' = steps \o <<"getSignatureParameters", "submit">>
            /\ doneSteps' = doneSteps + 2
            /\ SendRawBiconomyERC20Transaction(userAddress, abiEncodedApprove,
                                               GetSignatureParameters(r.v))
            /\ failedAt' = IF splitOk THEN failedAt ELSE "getSignatureParameters"
            /\ UNCHANGED result
    /\ UNCHANGED <<config, status, entry, locals, emitted, delivered, inflight, nonceRaw,
                   nonceCalls, signArgs, lastExec, listenerThrown>>

\* signedMessageForTx comes back; getSignatureParameters splits the signature
\* and sendRawBiconomyERC20Transaction is entered.
SignedMessageReturns(r, splitOk) ==
    /\ pc = "awaitSign"
    /\ IF ~r.ok
       THEN /\ Fail("signedMessageForTx", r.v)
            /\ UNCHANGED <<steps, doneSteps, params, relayQueried, relay, exec>>
       ELSE IF ~splitOk
       THEN /\ Fail("getSignatureParameters", "bad signature")
            /\ steps' = Append(steps, "getSignatureParameters")
            /\ doneSteps' = doneSteps + 1
            /\ UNCHANGED <<params, relayQueried, relay, exec>>
       ELSE /\ steps' = steps \o <<"getSignatureParameters", "submit">>
            /\ doneSteps' = doneSteps + 2
            /\ SendRawBiconomyERC20Transaction(userAddress, abiEncodedApprove,
                                               GetSignatureParameters(r.v))
            /\ UNCHANGED <<result, failedAt>>
    /\ UNCHANGED <<config, status, entry, locals, emitted, delivered, inflight, nonceRaw,
                   nonceCalls, signArgs, lastExec, listenerThrown>>

\* ------------------------------------------------------------ specification

DirectCalls == {AbiEncodeErc20Functions("approve", PaymentsAddress, ConvertToWei("1", DefaultPrecision))}

Next ==
    \/ \E a \in Amounts, c \in ChainIds, co \in BOOLEAN, eo \in BOOLEAN :
           GasslessApproval(a, c, co, eo)
    \/ \E r \in AddressResponses : GetAddressReturns(r)
    \/ \E r \in NonceResponses : GetNonceReturns(r)
    \/ \E r \in SignResponses, so \in BOOLEAN : SignedMessageReturns(r, so)
    \/ \E a \in Addresses, c \in DirectCalls, s \in Signatures :
           CallSendRaw(a, c, GetSignatureParameters(s))
    \/ \E r \in ExecResponses : ExecReturns(r)
    \/ \E p \in ErrorPayloads : EmitError(p)
    \/ EmitReady
    \/ \E r \in ExecResponses : ListenerExecReturns(r)

Spec == Init /\ [][Next]_vars

\* ------------------------------------------------------------------ claims

\* The call went through the waiting branch of sendRawBiconomyERC20Transaction.
Waiting == pc = "waiting"

\* The call went through the READY branch.
ReadyPath == relayQueried /\ pc # "waiting"

\* This step is the entry of sendRawBiconomyERC20Transaction.
EntersSendRaw == ~relayQueried /\ relayQueried'

FirstIsError == delivered # <<>> /\ delivered[1].type = ERROR

Delivered(t) == \E i \in 1..Len(delivered) : delivered[i].type = t

\* C1: in a call that waits for the relay, once one of READY and ERROR has
\* fired the other has no further effect: a READY after an ERROR starts no
\* executeMetaTransaction, and one call starts it at most once.
C1_OneShotListeners ==
    Waiting => /\ execCalls <= 1
               /\ (FirstIsError => execCalls = 0)

\* C2: entered with the relay not READY, the call registers exactly one READY
\* and one ERROR listener, and its result is settled once: whatever the order
\* of READY and ERROR, a settled result never changes again, and it is settled
\* as soon as the ERROR listener has run or a READY listener's submission has
\* come back with a transaction.
C2_SettledOnce ==
    /\ [](Waiting => readyListeners = 1 /\ errorListeners = 1)
    /\ [](Waiting /\ Delivered(ERROR) => result # Pending)
    /\ [][/\ (EntersSendRaw /\ status # READY =>
                  readyListeners' = 1 /\ errorListeners' = 1 /\ result' = Pending)
          /\ (result # Pending => result' = result)
          /\ (inflight' < inflight /\ lastExec'[1] = "resolved" => result' # Pending)]_vars

C2_BothFired ==
    /\ Waiting /\ Delivered(READY) /\ Delivered(ERROR)
    /\ inflight = 0 /\ lastExec[1] = "resolved"
    /\ result[1] = "rejected"

\* C3: when executeMetaTransaction fails, the call fails with that error,
\* on the READY branch and from the READY listener alike.
C3_ExecFailurePropagates ==
    (lastExec[1] = "rejected" /\ inflight = 0 /\ execCalls = 1 /\ ~Delivered(ERROR))
        => result = lastExec

\* C4: gasslessApproval without a relay credential fails at once with
\* INVALID_BICONOMY_KEY and calls neither the signer nor a contract.
C4_NoCredential ==
    (entry = "approval" /\ ~biconomy) =>
        /\ pc = "done"
        /\ result = <<"rejected", INVALID_BICONOMY_KEY>>
        /\ steps = <<>>
        /\ userAddress = "" /\ signArgs = NoSign /\ rsv = NoRsv
        /\ nonceCalls = 0 /\ execCalls = 0
        /\ ~relayQueried /\ readyListeners = 0 /\ errorListeners = 0

C4_Rejected == entry = "approval" /\ ~biconomy /\ result[1] = "rejected"

\* C5 as stated: entered with the relay READY, the call starts
\* executeMetaTransaction exactly once, registers no listener and returns
\* what that call returns.
C5_ReadyExactlyOnce ==
    ReadyPath /\ biconomy =>
        /\ execCalls = 1
        /\ readyListeners = 0 /\ errorListeners = 0
        /\ (pc = "done" => result = lastExec)

\* C5 as amended: entered with the relay READY, the call registers no
\* listener; with biconomyERC20Contract set it starts
\* executeMetaTransaction(u, f, r, s, v) exactly once and returns what that
\* call returns; with the contract unset it starts none and resolves with
\* undefined.
C5_ReadyPath ==
    /\ [](ReadyPath /\ biconomy =>
            /\ readyListeners = 0 /\ errorListeners = 0
            /\ execCalls = (IF biconomyERC20Contract THEN 1 ELSE 0)
            /\ (biconomyERC20Contract =>
                    execArgs = [u |-> u, f |-> f, r |-> rsv.r, s |-> rsv.s, v |-> rsv.v])
            /\ (entry = "approval" => u = userAddress /\ f = abiEncodedApprove)
            /\ (pc = "done" => result = lastExec)
            /\ (pc = "done" /\ ~biconomyERC20Contract => result = <<"resolved", Undefined>>))
    /\ [][EntersSendRaw /\ status = READY => pc' = "awaitExec"]_vars

C5_Returned ==
    /\ ReadyPath /\ biconomyERC20Contract /\ entry = "approval"
    /\ pc = "done" /\ result[1] = "resolved" /\ result[2] \in TxResults
    /\ emitted > 0

\* C6: a waiting call whose first relay event is ERROR with payload p is
\* rejected with exactly p; no executeMetaTransaction was started before, and
\* the ERROR listener starts none.
C6_ErrorVerbatim ==
    /\ [](Waiting /\ FirstIsError => result = <<"rejected", delivered[1].payload>>)
    /\ [][(Len(delivered') > Len(delivered) /\ delivered'[Len(delivered')].type = ERROR) =>
              /\ execCalls' = execCalls /\ inflight' = inflight
              /\ (delivered = <<>> => execCalls = 0 /\ result = Pending)]_vars

C6_ErrorFirst ==
    /\ Waiting /\ FirstIsError /\ delivered[1].payload = "relay down"
    /\ result = <<"rejected", "relay down">> /\ execCalls = 0

\* C7: the steps of gasslessApproval start in the order convert, encode,
\* address, nonce, sign, split, submit, each after the one before it has
\* completed, and a failure before the submission ends the call with no relay
\* query, no listener and no executeMetaTransaction.
C7_StrictOrder ==
    entry = "approval" =>
        /\ Len(steps) <= Len(StepOrder)
        /\ steps = SubSeq(StepOrder, 1, Len(steps))
        /\ Len(steps) <= doneSteps + 1
        /\ (relayQueried => Len(steps) = Len(StepOrder))
        /\ (failedAt \notin {"", "submit"} =>
                /\ pc = "done" /\ result[1] = "rejected"
                /\ ~relayQueried
                /\ readyListeners = 0 /\ errorListeners = 0
                /\ execCalls = 0)

C7_FailedAtSplit ==
    /\ entry = "approval" /\ failedAt = "getSignatureParameters"
    /\ Len(steps) = 6 /\ status = READY

\* C8: a getNonce result that is missing (no contract, undefined, no first
\* element) gives nonce 0, and gasslessApproval does not fail on it but signs
\* and submits with nonce 0.
C8_MissingNonceIsZero ==
    /\ \A raw \in NonceRaws :
           raw.k \in MissingNonce => NonceToNumber(raw) = [thrown |-> FALSE, n |-> 0]
    /\ (entry = "approval" /\ nonceRaw.k \in MissingNonce) =>
           /\ nonce = 0
           /\ failedAt # "getNonce"
           /\ Len(steps) >= 5 /\ steps[5] = "signedMessageForTx"
           /\ signArgs.n = 0 /\ signArgs.u = userAddress
    /\ (entry = "approval" /\ ~erc20Contract /\ Len(steps) >= 5) => nonceRaw.k = "undefined"

C8_SubmittedWithZero ==
    /\ entry = "approval" /\ nonceRaw.k = "empty" /\ erc20Contract
    /\ relayQueried /\ signArgs.n = 0

\* C9: a waiting call to which the relay has delivered neither READY nor
\* ERROR is still pending, and nothing has been submitted on its behalf.
C9_PendingUntilEvent ==
    (Waiting /\ delivered = <<>>) =>
        /\ result = Pending
        /\ execCalls = 0 /\ inflight = 0
        /\ lastExec = Pending

C9_StillWaiting ==
    Waiting /\ delivered = <<>> /\ result = Pending /\ entry = "approval"

\* C10: gasslessApproval converts the amount with the configured precision,
\* 0 included, and with 18 only when none is configured: the precision of
\* paymentWithFee and getApprovalAmount.
C10_ConfiguredPrecision ==
    wei # NoWei => wei.precision = FeePrecision(tokenPrecision)

====
